---- MODULE Spec2Model ----
(***************************************************************************)
(* Model of axios-enhance (src/index.js): the MAxios singleton that wraps  *)
(* an axios transport with a response cache, cancellation of duplicated    *)
(* in-flight requests and retry with a delay.                              *)
(*                                                                         *)
(* src/index.js holds two variants of the class: the JavaScript one        *)
(* (lines 1-217) and the TypeScript one (lines 219-441).  The variable     *)
(* `variant` says which one runs.                                          *)
(*                                                                         *)
(* Strings that the code computes with (method, url, keys) are sequences   *)
(* of one-character strings, so that lower-casing and concatenation are    *)
(* computed and not assumed.                                               *)
(*                                                                         *)
(* Scheduling.  JavaScript runs one macrotask at a time and drains the     *)
(* microtask queue before the next macrotask.  request() reads the cache   *)
(* synchronously; the request interceptor runs in a microtask of the same  *)
(* macrotask and nothing that writes the cache or the registry can run in  *)
(* between except other request interceptors, with which the cache read    *)
(* commutes: Request is one action.  The transport call (axios'            *)
(* dispatchRequest) is a later microtask, so other request interceptors    *)
(* may run between a request's interceptor and its dispatch: Dispatch is   *)
(* its own action.  A transport answer and a timer are macrotasks: they    *)
(* wait until the microtasks (dispatches, cancellations) are drained.      *)
(***************************************************************************)
EXTENDS Integers, Sequences, FiniteSets, TLC

\* ------------------------------------------------------------------ bounds
\* Number of request() calls of a run (request ids 1..NumReqs, in call order).
NumReqs == 2
\* Largest retry budget a caller sets.
MaxRetry == 2

Reqs == 1..NumReqs

\* ----------------------------------------------------------------- strings
\* String.prototype.toLocaleLowerCase on the characters the model uses.
LowerChar(c) ==
  CASE c = "G" -> "g"
    [] c = "E" -> "e"
    [] c = "T" -> "t"
    [] c = "P" -> "p"
    [] c = "O" -> "o"
    [] c = "S" -> "s"
    [] OTHER -> c

toLocaleLowerCase(s) == [i \in 1..Len(s) |-> LowerChar(s[i])]

GET == <<"G", "E", "T">>
get == <<"g", "e", "t">>
POST == <<"P", "O", "S", "T">>
UrlA == <<"/", "a">>
UrlB == <<"/", "b">>
EmptyStr == <<>>

\* --------------------------------------------------------- cancel / errors
\* ERROR_TYPE.Cancel
ERROR_TYPE_Cancel == "cancelDuplicated"

\* The object removeReq passes to the cancel function; axios wraps it in a
\* Cancel whose .message it is, and the error handler rejects with it.
CancelMessage == [type |-> ERROR_TYPE_Cancel, message |-> "Request canceled "]

\* The error of the k-th transport attempt of request r.
TransportError(r, k) == [type |-> "error", from |-> r, attempt |-> k]

\* The response of the k-th transport attempt of request r.
TransportResponse(r, k) == [type |-> "response", from |-> r, attempt |-> k]

NoResult == [type |-> "none"]

\* ------------------------------------------------------------ retry delays
\* A retryDelay option is a number of milliseconds or a function of the
\* attempt number; fn = "none" is a number.
Ms(n) == [fn |-> "none", ms |-> n]
Fn(name) == [fn |-> name, ms |-> 0]

isFunctionDelay(d) == d.fn # "none"

\* The retryDelay functions callers supply in the model.
ApplyRetryDelay(d, k) ==
  CASE d.fn = "fall" -> IF k = 1 THEN 300 ELSE 100
    [] OTHER -> 0

\* ----------------------------------------------------------------- configs
\* duplicatedKey options: "" (the JavaScript default, not a function) or the
\* name of a function of the config.
ApplyDuplicatedKey(f, config) ==
  CASE f = "empty" -> EmptyStr
    [] f = "byUrl" -> config.url
    [] f = "constK" -> <<"k">>
    [] f = "tsDefault" -> toLocaleLowerCase(config.method) \o config.url
    [] OTHER -> EmptyStr

isFunctionKey(f) == f \in {"empty", "byUrl", "constK", "tsDefault"}

defaultConfigJS ==
  [method |-> GET, cancelDuplicated |-> FALSE, duplicatedKey |-> "",
   retry |-> 0, retryDelay |-> Ms(200), retryDelayRise |-> TRUE,
   timeout |-> -1, cache |-> FALSE]

defaultConfigTS ==
  [method |-> get, cancelDuplicated |-> FALSE, duplicatedKey |-> "tsDefault",
   retry |-> 0, retryDelay |-> Ms(200), retryDelayRise |-> TRUE,
   cache |-> FALSE]

defaultConfig(v) == IF v = "ts" THEN defaultConfigTS ELSE defaultConfigJS

\* Object.assign({}, a, b): the fields of b over those of a.
ObjectAssign(a, b) ==
  [f \in DOMAIN a \cup DOMAIN b |-> IF f \in DOMAIN b THEN b[f] ELSE a[f]]

\* ------------------------------------------------------------ getDuplicatedKey
getDuplicatedKeyJS(config) ==
  LET customKey == IF config.duplicatedKey # "" /\ isFunctionKey(config.duplicatedKey)
                   THEN ApplyDuplicatedKey(config.duplicatedKey, config)
                   ELSE EmptyStr
  IN IF customKey # EmptyStr
     THEN customKey
     ELSE toLocaleLowerCase(config.method) \o config.url

getDuplicatedKeyTS(config) ==
  ApplyDuplicatedKey(config.duplicatedKey, config)

getDuplicatedKey(v, config) ==
  IF v = "ts" THEN getDuplicatedKeyTS(config) ELSE getDuplicatedKeyJS(config)

\* ------------------------------------------------------------------- state
VARIABLES
  variant,           \* "js" | "ts": which class of src/index.js runs
  pool,              \* the option objects the callers pass to request()
  st,                \* request -> where its promise chain stands
  cfg,               \* request -> its config object (merged options)
  token,             \* request -> id of config.cancelToken (0: none)
  reason,            \* request -> config.cancelToken.reason is set
  calls,             \* request -> number of transport invocations
  result,            \* request -> what the caller's promise settled with
  requestMap,        \* this.requestMap: key -> cancel function
  responseCacheMap,  \* this.responseCacheMap: key -> response
  timer,             \* request -> ms left on its retry timer
  delay,             \* request -> the delay retry() last computed
  answered,          \* history: the transport has answered some request
  early,             \* history: the request's first hook ran before any transport answer
  completions,       \* history: the successful transport answers, in order
  lastHook           \* history: key -> the request whose request interceptor
                     \* ran last with cancelDuplicated set

vars == <<variant, pool, st, cfg, token, reason, calls, result, requestMap,
          responseCacheMap, timer, delay, answered, early, completions, lastHook>>

\* st[r] is "idle" (request() not yet called), "queued" (past the request
\* interceptor, before the transport call), "inflight" (at the transport),
\* "cancelling" (the Cancel is on its way to the error handler), "waiting"
\* (on the retry timer), "resolved" or "rejected".

NoConfig == [none |-> TRUE]

Issued(r) == st[r] # "idle"

Key(r) == getDuplicatedKey(variant, cfg[r])

\* No microtask is left: every interceptor chain stands at the transport, at
\* a timer or at its end.
Drained == \A r \in Reqs : st[r] \notin {"queued", "cancelling"}

\* ------------------------------------------------------- the pending registry
Remove(map, key) == [k \in DOMAIN map \ {key} |-> map[k]]

Put(map, key, val) == [k \in DOMAIN map \cup {key} |-> IF k = key THEN val ELSE map[k]]

\* The cancel function c of a CancelToken, called with CancelMessage: it sets
\* the token's reason; a transport call that runs under this token is
\* aborted and rejects with the Cancel.  `stf` is the status map in which the
\* calling handler has already taken its own request out of the transport.
cancelStatus(stf, h) ==
  IF token[h.req] = h.tok /\ stf[h.req] = "inflight"
  THEN [stf EXCEPT ![h.req] = "cancelling"]
  ELSE stf

cancelReason(rsn, h) ==
  IF token[h.req] = h.tok THEN [rsn EXCEPT ![h.req] = TRUE] ELSE rsn

\* removeReq(config) takes the entry of the config's key out and cancels it.
\* Mutant: removeReq does so whatever the request's flag.
removeReqHits_AnyFlag(config, map) ==
  getDuplicatedKey(variant, config) \in DOMAIN map

removeReqHits(config, map) ==
  /\ config.cancelDuplicated
  /\ getDuplicatedKey(variant, config) \in DOMAIN map

\* Mutant: removeReq calls the cancel function and leaves the entry in the map.
removeReqMap_Keep(config, map) == map

removeReqMap(config, map) ==
  IF removeReqHits(config, map)
  THEN Remove(map, getDuplicatedKey(variant, config))
  ELSE map

\* Mutant: removeReq deletes the entry and forgets to call its cancel function.
removeReqStatus_NoCancel(config, map, stf) == stf

removeReqStatus(config, map, stf) ==
  IF removeReqHits(config, map)
  THEN cancelStatus(stf, map[getDuplicatedKey(variant, config)])
  ELSE stf

removeReqReason(config, map, rsn) ==
  IF removeReqHits(config, map)
  THEN cancelReason(rsn, map[getDuplicatedKey(variant, config)])
  ELSE rsn

\* addReq(config): a new CancelToken whose cancel function goes into the map,
\* unless the request does not cancel duplicates or the key is taken.
\* Mutant: addReq registers a token whatever the request's flag.
addReqHits_AnyFlag(config, map) ==
  getDuplicatedKey(variant, config) \notin DOMAIN map

addReqHits(config, map) ==
  /\ config.cancelDuplicated
  /\ getDuplicatedKey(variant, config) \notin DOMAIN map

addReqMap(r, config, map) ==
  IF addReqHits(config, map)
  THEN Put(map, getDuplicatedKey(variant, config), [req |-> r, tok |-> token[r] + 1])
  ELSE map

\* The request interceptor for request r with config c, then the chain
\* waits for its dispatch microtask.
interceptorsRequest(r, c) ==
  LET map1 == removeReqMap(c, requestMap)
      st1 == removeReqStatus(c, requestMap, st)
      rsn1 == removeReqReason(c, requestMap, reason)
  IN /\ requestMap' = addReqMap(r, c, map1)
     /\ token' = IF addReqHits(c, map1) THEN [token EXCEPT ![r] = @ + 1] ELSE token
     /\ reason' = IF addReqHits(c, map1) THEN [rsn1 EXCEPT ![r] = FALSE] ELSE rsn1
     /\ st' = [st1 EXCEPT ![r] = "queued"]
     /\ lastHook' = IF c.cancelDuplicated
                    THEN Put(lastHook, getDuplicatedKey(variant, c), r)
                    ELSE lastHook

\* ------------------------------------------------------- the response cache
\* Mutant: the cache lookup never finds the entry.
getResponseCache_Miss(config) == NoResult

getResponseCache(config) ==
  IF getDuplicatedKey(variant, config) \in DOMAIN responseCacheMap
  THEN responseCacheMap[getDuplicatedKey(variant, config)]
  ELSE NoResult

\* Mutant: the response is stored whatever the request's cache flag.
setResponseCache_Ungated(config, response) ==
  Put(responseCacheMap, getDuplicatedKey(variant, config), response)

setResponseCache(config, response) ==
  IF ~config.cache
  THEN responseCacheMap
  ELSE Put(responseCacheMap, getDuplicatedKey(variant, config), response)

\* ------------------------------------------------------------------ actions
\* const config = Object.assign({}, defaultConfig, options); the retry
\* counter is the absent config.__retryCount, read as 0.
requestConfig(v, options) ==
  ObjectAssign(ObjectAssign(defaultConfig(v), options), [retryCount |-> 0])

\* Mutant: request() runs the request interceptor before it looks in the
\* cache.
Request_HookOnHit(r, options) ==
  /\ st[r] = "idle"
  /\ r > 1 => st[r - 1] # "idle"
  /\ LET config == requestConfig(variant, options)
         hit == config.cache /\ getResponseCache(config) # NoResult
     IN /\ cfg' = [cfg EXCEPT ![r] = config]
        /\ requestMap' = addReqMap(r, config, removeReqMap(config, requestMap))
        /\ token' = IF addReqHits(config, removeReqMap(config, requestMap))
                    THEN [token EXCEPT ![r] = @ + 1]
                    ELSE token
        /\ reason' = removeReqReason(config, requestMap, reason)
        /\ lastHook' = IF config.cancelDuplicated
                       THEN Put(lastHook, getDuplicatedKey(variant, config), r)
                       ELSE lastHook
        /\ st' = [removeReqStatus(config, requestMap, st) EXCEPT
                    ![r] = IF hit THEN "resolved" ELSE "queued"]
        /\ result' = IF hit THEN [result EXCEPT ![r] = getResponseCache(config)]
                            ELSE result
        /\ early' = IF hit THEN early ELSE [early EXCEPT ![r] = ~answered]
  /\ UNCHANGED <<variant, pool, calls, responseCacheMap, timer, delay, answered, completions>>

\* request(options)
Request(r, options) ==
  /\ st[r] = "idle"
  /\ r > 1 => st[r - 1] # "idle"
  /\ LET config == requestConfig(variant, options)
     IN /\ cfg' = [cfg EXCEPT ![r] = config]
        /\ IF config.cache /\ getResponseCache(config) # NoResult
           THEN /\ st' = [st EXCEPT ![r] = "resolved"]
                /\ result' = [result EXCEPT ![r] = getResponseCache(config)]
                /\ early' = early
                /\ UNCHANGED <<requestMap, token, reason, lastHook>>
           ELSE /\ interceptorsRequest(r, config)
                /\ early' = [early EXCEPT ![r] = ~answered]
                /\ UNCHANGED result
  /\ UNCHANGED <<variant, pool, calls, responseCacheMap, timer, delay, answered, completions>>

\* axios' dispatchRequest: throwIfCancellationRequested, then the adapter.
Dispatch(r) ==
  /\ st[r] = "queued"
  /\ IF token[r] # 0 /\ reason[r]
     THEN /\ st' = [st EXCEPT ![r] = "cancelling"]
          /\ UNCHANGED calls
     ELSE /\ st' = [st EXCEPT ![r] = "inflight"]
          /\ calls' = [calls EXCEPT ![r] = @ + 1]
  /\ UNCHANGED <<variant, pool, cfg, token, reason, result, requestMap,
                 responseCacheMap, timer, delay, answered, early, completions,
                 lastHook>>

\* Mutant: the error handler does not test axios.isCancel and treats the
\* Cancel like a transport error of a request with a retry budget.
DeliverCancel_Retried(r) ==
  /\ st[r] = "cancelling"
  /\ IF cfg[r].retry > 0 /\ cfg[r].retryCount < cfg[r].retry
     THEN /\ st' = [st EXCEPT ![r] = "waiting"]
          /\ cfg' = [cfg EXCEPT ![r].retryCount = @ + 1]
          /\ UNCHANGED result
     ELSE /\ st' = [st EXCEPT ![r] = "rejected"]
          /\ result' = [result EXCEPT ![r] = CancelMessage]
          /\ UNCHANGED cfg
  /\ UNCHANGED <<variant, pool, token, reason, calls, requestMap,
                 responseCacheMap, timer, delay, answered, early, completions,
                 lastHook>>

\* Mutant: the error handler answers a Cancel with a promise that never
\* settles.
DeliverCancel_Swallowed(r) ==
  /\ st[r] = "cancelling"
  /\ st' = [st EXCEPT ![r] = "swallowed"]
  /\ UNCHANGED <<variant, pool, cfg, token, reason, calls, result, requestMap,
                 responseCacheMap, timer, delay, answered, early, completions,
                 lastHook>>

\* The error handler of the response interceptor on a Cancel: error.config is
\* undefined, removeReq({}) changes nothing (the JavaScript getDuplicatedKey
\* throws on the missing method inside the try; the TypeScript removeReq
\* returns on the missing flag), and the caller gets error.message.
DeliverCancel(r) ==
  /\ st[r] = "cancelling"
  /\ st' = [st EXCEPT ![r] = "rejected"]
  /\ result' = [result EXCEPT ![r] = CancelMessage]
  /\ UNCHANGED <<variant, pool, cfg, token, reason, calls, requestMap,
                 responseCacheMap, timer, delay, answered, early, completions,
                 lastHook>>

\* The transport answers with a response: the success handler of the
\* response interceptor.
RespondSuccess(r) ==
  /\ st[r] = "inflight"
  /\ Drained
  /\ LET response == TransportResponse(r, calls[r])
         done == [st EXCEPT ![r] = "resolved"]
     IN /\ requestMap' = removeReqMap(cfg[r], requestMap)
        /\ st' = removeReqStatus(cfg[r], requestMap, done)
        /\ reason' = removeReqReason(cfg[r], requestMap, reason)
        /\ responseCacheMap' = setResponseCache(cfg[r], response)
        /\ result' = [result EXCEPT ![r] = response]
        /\ completions' = Append(completions, [req |-> r, response |-> response])
  /\ answered' = TRUE
  /\ UNCHANGED <<variant, pool, cfg, token, calls, timer, delay, early, lastHook>>

\* Mutant: the delay of a number rises with the attempt whatever
\* retryDelayRise says.
retryDelayJS_AlwaysRise(config, retryCount) ==
  IF isFunctionDelay(config.retryDelay)
  THEN ApplyRetryDelay(config.retryDelay, retryCount)
  ELSE config.retryDelay.ms * retryCount

\* The delay retry() waits before re-issuing, retryCount already advanced.
retryDelayJS(config, retryCount) ==
  IF isFunctionDelay(config.retryDelay)
  THEN ApplyRetryDelay(config.retryDelay, retryCount)
  ELSE config.retryDelay.ms * (IF config.retryDelayRise THEN retryCount ELSE 1)

retryDelayTS(config, retryCount) ==
  IF ~isFunctionDelay(config.retryDelay)
  THEN config.retryDelay.ms * (IF config.retryDelayRise THEN retryCount ELSE 1)
  ELSE ApplyRetryDelay(config.retryDelay, retryCount)

retryDelayOf(v, config, retryCount) ==
  IF v = "ts" THEN retryDelayTS(config, retryCount) ELSE retryDelayJS(config, retryCount)

\* Mutant: retry() gives up only after one attempt more.
retryExhausted_OneMore(config) == config.retryCount > config.retry

\* Mutant: retry() gives up one attempt early.
retryExhausted_OneLess(config) == config.retryCount + 1 >= config.retry

\* retry() gives up: the budget is used.
retryExhausted(config) == config.retryCount >= config.retry

\* The config after retry() has advanced the counter (and, in the JavaScript
\* variant, raised the timeout of the last attempt).
retryConfig(v, config) ==
  LET retryCount == config.retryCount + 1
      counted == [config EXCEPT !.retryCount = retryCount]
  IN IF v = "js" /\ retryCount = config.retry
     THEN [counted EXCEPT !.timeout = 15000]
     ELSE counted

\* The transport answers with an error: the error handler of the response
\* interceptor, and retry() when the request has a retry budget.
RespondFailure(r) ==
  /\ st[r] = "inflight"
  /\ Drained
  /\ LET error == TransportError(r, calls[r])
         config == cfg[r]
         gone == [st EXCEPT ![r] = "settling"]
         st1 == removeReqStatus(config, requestMap, gone)
     IN /\ requestMap' = removeReqMap(config, requestMap)
        /\ reason' = removeReqReason(config, requestMap, reason)
        /\ IF config.retry > 0 /\ ~retryExhausted(config)
           THEN /\ cfg' = [cfg EXCEPT ![r] = retryConfig(variant, config)]
                /\ delay' = [delay EXCEPT ![r] =
                               retryDelayOf(variant, config, config.retryCount + 1)]
                /\ timer' = [timer EXCEPT ![r] =
                               retryDelayOf(variant, config, config.retryCount + 1)]
                /\ st' = [st1 EXCEPT ![r] = "waiting"]
                /\ UNCHANGED result
           ELSE /\ st' = [st1 EXCEPT ![r] = "rejected"]
                /\ result' = [result EXCEPT ![r] = error]
                /\ UNCHANGED <<cfg, delay, timer>>
  /\ answered' = TRUE
  /\ UNCHANGED <<variant, pool, token, calls, responseCacheMap, early, completions,
                 lastHook>>

\* Mutant: the re-issuance goes to the transport past the request interceptor.
TimerFire_NoHook(r) ==
  /\ st[r] = "waiting"
  /\ timer[r] = 0
  /\ Drained
  /\ st' = [st EXCEPT ![r] = "queued"]
  /\ UNCHANGED <<variant, pool, cfg, token, reason, calls, result, requestMap,
                 responseCacheMap, timer, delay, answered, early, completions,
                 lastHook>>

\* The retry timer fires: instance.request(config) runs the request
\* interceptor again on the same config.
TimerFire(r) ==
  /\ st[r] = "waiting"
  /\ timer[r] = 0
  /\ Drained
  /\ interceptorsRequest(r, cfg[r])
  /\ UNCHANGED <<variant, pool, cfg, calls, result, responseCacheMap, timer, delay,
                 answered, early, completions>>

\* 100 ms pass.
Tick ==
  /\ Drained
  /\ \E r \in Reqs : st[r] = "waiting" /\ timer[r] > 0
  /\ timer' = [r \in Reqs |->
                 IF st[r] = "waiting" /\ timer[r] > 100 THEN timer[r] - 100 ELSE 0]
  /\ UNCHANGED <<variant, pool, st, cfg, token, reason, calls, result, requestMap,
                 responseCacheMap, delay, answered, early, completions, lastHook>>

\* ------------------------------------------------------------ specifications
\* The option objects of the general runs.  The first is the README demo
\* (cache, cancel duplicates, retry); the others switch the flags off one
\* by one, spell the method differently (same key) or change it (other key).
Options ==
  { [url |-> UrlA, cache |-> TRUE, cancelDuplicated |-> TRUE,
     retry |-> MaxRetry, retryDelay |-> Ms(100)],
    [url |-> UrlA, method |-> get, cancelDuplicated |-> TRUE],
    [url |-> UrlA, method |-> get, cache |-> TRUE, cancelDuplicated |-> FALSE,
     retry |-> 1],
    [url |-> UrlA],
    [url |-> UrlA, retry |-> 1, retryDelayRise |-> FALSE],
    [url |-> UrlA, method |-> POST, cancelDuplicated |-> TRUE, cache |-> TRUE] }

InitState ==
  /\ st = [r \in Reqs |-> "idle"]
  /\ cfg = [r \in Reqs |-> NoConfig]
  /\ token = [r \in Reqs |-> 0]
  /\ reason = [r \in Reqs |-> FALSE]
  /\ calls = [r \in Reqs |-> 0]
  /\ result = [r \in Reqs |-> NoResult]
  /\ requestMap = <<>>
  /\ responseCacheMap = <<>>
  /\ timer = [r \in Reqs |-> 0]
  /\ delay = [r \in Reqs |-> 0]
  /\ answered = FALSE
  /\ early = [r \in Reqs |-> FALSE]
  /\ completions = <<>>
  /\ lastHook = <<>>

Init ==
  /\ variant = "js"
  /\ pool = Options
  /\ InitState

Next ==
  \/ \E r \in Reqs, options \in pool : Request(r, options)
  \/ \E r \in Reqs : Dispatch(r)
  \/ \E r \in Reqs : DeliverCancel(r)
  \/ \E r \in Reqs : RespondSuccess(r)
  \/ \E r \in Reqs : RespondFailure(r)
  \/ \E r \in Reqs : TimerFire(r)
  \/ Tick

Spec == Init /\ [][Next]_vars

\* Runs about settlement: requests that cancel duplicates with and without
\* a retry budget, and a request that retries without cancelling.
LiveOptions ==
  { [url |-> UrlA, cache |-> TRUE, cancelDuplicated |-> TRUE,
     retry |-> MaxRetry, retryDelay |-> Ms(100)],
    [url |-> UrlA, method |-> get, cancelDuplicated |-> TRUE],
    [url |-> UrlA, retry |-> 1, retryDelayRise |-> FALSE] }

InitLive ==
  /\ variant = "js"
  /\ pool = LiveOptions
  /\ InitState

\* The event loop at work: pending microtasks run (the dispatch, the error
\* handler on a Cancel), the transport answers every invocation it still
\* holds, time passes and due retry timers fire.  Callers are free to issue
\* no further request.
Fairness ==
  /\ WF_vars(Tick)
  /\ \A r \in Reqs :
       /\ WF_vars(Dispatch(r))
       /\ WF_vars(DeliverCancel(r))
       /\ WF_vars(RespondSuccess(r) \/ RespondFailure(r))
       /\ WF_vars(TimerFire(r))

SpecLive == InitLive /\ [][Next]_vars /\ Fairness

\* Runs about the retry delay: numbers and functions, rising or not, in both
\* variants of the class.
DelayOptions ==
  { [url |-> UrlA, retry |-> 2, retryDelay |-> Ms(100), cancelDuplicated |-> TRUE],
    [url |-> UrlA, retry |-> MaxRetry, retryDelay |-> Ms(100), retryDelayRise |-> FALSE],
    [url |-> UrlA, retry |-> 2, retryDelay |-> Fn("fall"), cancelDuplicated |-> TRUE],
    [url |-> UrlA, retry |-> 1] }

InitDelay ==
  /\ variant \in {"js", "ts"}
  /\ pool = DelayOptions
  /\ InitState

SpecDelay == InitDelay /\ [][Next]_vars

\* Runs about the key: every way of supplying duplicatedKey, in both
\* variants of the class.
KeyOptions ==
  { [url |-> UrlA, cancelDuplicated |-> TRUE],
    [url |-> UrlA, method |-> get, duplicatedKey |-> "empty", cancelDuplicated |-> TRUE],
    [url |-> UrlB, method |-> POST, duplicatedKey |-> "empty", cancelDuplicated |-> TRUE],
    [url |-> UrlB, method |-> GET, duplicatedKey |-> "byUrl", cache |-> TRUE],
    [url |-> UrlB, duplicatedKey |-> "constK", retry |-> 1] }

InitKey ==
  /\ variant \in {"js", "ts"}
  /\ pool = KeyOptions
  /\ InitState

SpecKey == InitKey /\ [][Next]_vars

\* ------------------------------------------------------------ vocabulary
Settled(r) == st[r] \in {"resolved", "rejected"}

\* The request stands before the transport or at it.
InFlight(r) == st[r] \in {"queued", "inflight"}

\* The cancel function of the request's current token has been called and
\* the attempt has not answered: the Cancel is on its way to the caller.
Cancelling(r) == st[r] = "cancelling" \/ (st[r] = "queued" /\ token[r] # 0 /\ reason[r])

RejectedWithCancel(r) == st[r] = "rejected" /\ result[r] = CancelMessage

Superseded(r) == Cancelling(r) \/ RejectedWithCancel(r)

\* The request went through the request interceptor (it was not served from
\* the cache).
Hooked(r) == Issued(r) /\ ~(st[r] = "resolved" /\ calls[r] = 0)

\* The caller's promise settled with what the transport answered to the
\* request's last attempt.
SettledByTransport(r) ==
  \/ st[r] = "resolved" /\ result[r] = TransportResponse(r, calls[r])
  \/ st[r] = "rejected" /\ result[r] = TransportError(r, calls[r])

SameKey(r, q) == Issued(r) /\ Issued(q) /\ Key(r) = Key(q)

\* Requests with cancelDuplicated that passed their first request
\* interceptor before the transport had answered anything.
EarlyDup(r) == Hooked(r) /\ early[r] /\ cfg[r].cancelDuplicated

\* This step runs the request interceptor for r (a first issue or a retry).
HookStep(r) == st[r] \in {"idle", "waiting"} /\ st'[r] = "queued"

\* --------------------------------------------------------------- claims
\* C1: of the requests with one key and cancelDuplicated=true that enter the
\* request interceptor one after another before any transport answer, every
\* one but the last is rejected with the Cancel error (or the Cancel is on
\* its way while microtasks are pending), and the last, while no later
\* duplicate supersedes it, is not cancelled and settles with what the
\* transport answered.
C1_AllButLastCancelled ==
  \A r \in Reqs, q \in Reqs :
    (r < q /\ EarlyDup(r) /\ EarlyDup(q) /\ SameKey(r, q)) =>
      /\ Superseded(r)
      /\ Drained => RejectedWithCancel(r)
      /\ (\A p \in Reqs :
            (p > q /\ Hooked(p) /\ SameKey(p, q)) => ~cfg[p].cancelDuplicated) =>
           /\ ~Superseded(q)
           /\ Settled(q) => SettledByTransport(q)

C1_Witness ==
  \E r \in Reqs, q \in Reqs :
    /\ r < q /\ EarlyDup(r) /\ EarlyDup(q) /\ SameKey(r, q)
    /\ RejectedWithCancel(r)
    /\ st[q] = "resolved" /\ result[q] = TransportResponse(q, 1)

\* C2 as stated: when a request with cancelDuplicated=true runs the request
\* interceptor, every other request in flight under the same key is
\* cancelled, whatever its own flag.
C2_AnyFlagCancelled ==
  [][\A r \in Reqs, q \in Reqs :
       (HookStep(r) /\ cfg'[r].cancelDuplicated /\ q # r
          /\ InFlight(q) /\ ~Superseded(q) /\ Key(q) = Key(r)') =>
         Superseded(q)']_vars

\* C2 amended: when a request with cancelDuplicated=true runs the request
\* interceptor, another request in flight under the same key is cancelled
\* exactly when its own cancelDuplicated is true; one with
\* cancelDuplicated=false stays as it is.
C2_OnlyRegisteredCancelled ==
  [][\A r \in Reqs, q \in Reqs :
       (HookStep(r) /\ cfg'[r].cancelDuplicated /\ q # r
          /\ InFlight(q) /\ ~Superseded(q) /\ Key(q) = Key(r)') =>
         /\ Superseded(q)' <=> cfg[q].cancelDuplicated
         /\ ~cfg[q].cancelDuplicated => (st'[q] = st[q] /\ reason'[q] = reason[q])]_vars

C2_Witness ==
  \E r \in Reqs, q \in Reqs :
    /\ q < r /\ SameKey(r, q)
    /\ cfg[r].cancelDuplicated /\ ~cfg[q].cancelDuplicated
    /\ st[r] = "inflight" /\ st[q] = "inflight"
    /\ requestMap[Key(r)] = [req |-> r, tok |-> 1]

\* A request with cancelDuplicated=false has no cancel token, is never
\* cancelled, reaches the transport once per attempt and settles with what
\* the transport answered.
C3_NoDedupInvariant ==
  \A r \in Reqs :
    (Hooked(r) /\ ~cfg[r].cancelDuplicated) =>
      /\ token[r] = 0
      /\ ~Superseded(r)
      /\ Settled(r) => SettledByTransport(r)
      /\ (st[r] \in {"inflight", "resolved", "rejected"}) => calls[r] = cfg[r].retryCount + 1

\* C3: a request with cancelDuplicated=false leaves the registry and every
\* other request as they are when it runs the request interceptor (nothing
\* is superseded, nothing registered); it is never cancelled, reaches the
\* transport once per attempt and settles with what the transport answered.
C3_NoDedup ==
  /\ []C3_NoDedupInvariant
  /\ [][\A r \in Reqs :
          (HookStep(r) /\ ~cfg'[r].cancelDuplicated) =>
            /\ requestMap' = requestMap
            /\ token' = token
            /\ reason' = reason
            /\ \A q \in Reqs \ {r} : st'[q] = st[q] /\ calls'[q] = calls[q]]_vars

\* Both requests under one key, the second with cancelDuplicated=false and
\* issued while the first (registered) was in flight, resolved one call each.
C3_Witness ==
  \E r \in Reqs, q \in Reqs :
    /\ q < r /\ SameKey(r, q)
    /\ ~cfg[r].cancelDuplicated /\ cfg[q].cancelDuplicated
    /\ early[r] /\ early[q]
    /\ st[r] = "inflight" /\ calls[r] = 1
    /\ st[q] = "resolved" /\ result[q] = TransportResponse(q, 1) /\ calls[q] = 1

\* This step is the call request(options) for r.
RequestStep(r) == st[r] = "idle" /\ st'[r] # "idle"

\* The request was answered from the cache by request().
FromCache(r) == st[r] = "resolved" /\ calls[r] = 0

\* C4: request() with cache=true and a cache entry for the derived key
\* resolves with exactly that entry and calls no transport; a request served
\* from the cache never reaches the transport.
C4_CacheHit ==
  /\ [](\A r \in Reqs : FromCache(r) =>
          /\ cfg[r].cache
          /\ Key(r) \in DOMAIN responseCacheMap
          /\ token[r] = 0)
  /\ [][\A r \in Reqs :
          (RequestStep(r) /\ cfg'[r].cache /\ Key(r)' \in DOMAIN responseCacheMap) =>
            /\ st'[r] = "resolved"
            /\ result'[r] = responseCacheMap[Key(r)']
            /\ calls' = calls
            /\ responseCacheMap' = responseCacheMap]_vars

\* A first cache=true request succeeded, a second one with the same key got
\* the same response, and the transport was called once in all.
C4_Witness ==
  \E r \in Reqs, q \in Reqs :
    /\ r < q /\ SameKey(r, q) /\ cfg[r].cache /\ cfg[q].cache
    /\ st[r] = "resolved" /\ result[r] = TransportResponse(r, 1)
    /\ FromCache(q) /\ result[q] = result[r]
    /\ calls[r] = 1 /\ calls[q] = 0

\* The caller's promise was rejected with a transport error after retries.
RetriesFailed(r) ==
  /\ st[r] = "rejected" /\ result[r] # CancelMessage
  /\ cfg[r].retry >= 1

C6_CancelNotRetried ==
  [][\A r \in Reqs :
       Superseded(r) =>
         /\ Superseded(r)'
         /\ st'[r] # "waiting"
         /\ cfg'[r] = cfg[r]
         /\ calls'[r] = calls[r]
         /\ timer'[r] = timer[r]
         /\ st'[r] = "rejected" => result'[r] = CancelMessage]_vars

\* A request with budget left (retryCount < retry) and one retry behind it
\* was cancelled and its promise rejected with the Cancel message.
C6_Witness ==
  \E r \in Reqs :
    /\ RejectedWithCancel(r)
    /\ cfg[r].retryCount >= 1
    /\ cfg[r].retryCount < cfg[r].retry
    /\ calls[r] = cfg[r].retryCount + 1

\* The delay law: retryDelay(k) for a function, retryDelay*k for a number
\* that rises, retryDelay for one that does not.
DelayLaw(config, k) ==
  IF config.retryDelay.fn # "none"
  THEN ApplyRetryDelay(config.retryDelay, k)
  ELSE IF config.retryDelayRise THEN config.retryDelay.ms * k ELSE config.retryDelay.ms

\* C7: the delay before retry attempt k = retryCount follows the delay law,
\* the timer is armed with it, and the request reaches neither the request
\* interceptor nor the transport before the timer has run down.
C7_DelayLaw ==
  /\ [](\A r \in Reqs :
          st[r] = "waiting" =>
            /\ cfg[r].retryCount \in 1..cfg[r].retry
            /\ delay[r] = DelayLaw(cfg[r], cfg[r].retryCount)
            /\ timer[r] <= delay[r])
  /\ [][\A r \in Reqs :
          /\ (st[r] # "waiting" /\ st'[r] = "waiting") => timer'[r] = delay'[r]
          /\ st[r] = "waiting" =>
               /\ calls'[r] = calls[r]
               /\ delay'[r] = delay[r]
               /\ timer'[r] >= timer[r] - 100
               /\ st'[r] # "waiting" => (timer[r] = 0 /\ st'[r] = "queued")]_vars

\* A number that does not rise, at the second retry: re-issued after 100 ms.
C7_Witness ==
  \E r \in Reqs :
    /\ st[r] = "inflight" /\ cfg[r].retryCount = 2 /\ calls[r] = 3
    /\ cfg[r].retryDelay = Ms(100) /\ ~cfg[r].retryDelayRise
    /\ delay[r] = 100

\* The key the claim expects of a config.
ExpectedKey(config) ==
  IF isFunctionKey(config.duplicatedKey)
     /\ ApplyDuplicatedKey(config.duplicatedKey, config) # EmptyStr
  THEN ApplyDuplicatedKey(config.duplicatedKey, config)
  ELSE toLocaleLowerCase(config.method) \o config.url

ReturnsEmpty(config) ==
  isFunctionKey(config.duplicatedKey)
    /\ ApplyDuplicatedKey(config.duplicatedKey, config) = EmptyStr

\* C8: the derived key is what a supplied duplicatedKey returns when that is
\* not empty and lowercase(method)+url otherwise, so two requests whose
\* duplicatedKey returns "" and whose method+url differ have different keys.
C8_KeyDerivation ==
  /\ \A r \in Reqs : Issued(r) => Key(r) = ExpectedKey(cfg[r])
  /\ \A r \in Reqs, q \in Reqs :
       (Issued(r) /\ Issued(q) /\ ReturnsEmpty(cfg[r]) /\ ReturnsEmpty(cfg[q])
          /\ toLocaleLowerCase(cfg[r].method) \o cfg[r].url
               # toLocaleLowerCase(cfg[q].method) \o cfg[q].url) =>
         Key(r) # Key(q)

\* The successful answers to requests with cache=true and key k, in order.
CachedCompletions(k) ==
  SelectSeq(completions, LAMBDA e : cfg[e.req].cache /\ Key(e.req) = k)

\* C9: the cache holds a key exactly when a request with cache=true and that
\* key has succeeded, and holds the response of the latest such success; a
\* request with cache=false is never served from the cache, and a step
\* changes the cache only by storing the response of a cache=true request
\* that succeeds in it; no entry is ever removed.
C9_CacheContents ==
  /\ [](/\ \A k \in DOMAIN responseCacheMap :
             /\ CachedCompletions(k) # <<>>
             /\ responseCacheMap[k] =
                  CachedCompletions(k)[Len(CachedCompletions(k))].response
        /\ \A i \in 1..Len(completions) :
             cfg[completions[i].req].cache =>
               Key(completions[i].req) \in DOMAIN responseCacheMap
        /\ \A r \in Reqs : (Issued(r) /\ ~cfg[r].cache) => ~FromCache(r))
  /\ [][/\ DOMAIN responseCacheMap \subseteq DOMAIN responseCacheMap'
        /\ responseCacheMap' # responseCacheMap =>
             \E r \in Reqs :
               /\ st[r] = "inflight" /\ st'[r] = "resolved"
               /\ cfg[r].cache
               /\ responseCacheMap' =
                    Put(responseCacheMap, Key(r), TransportResponse(r, calls[r]))]_vars

\* Two cache=true requests of one key succeeded one after the other, a
\* cache=false request of the same key succeeded last, and the cache holds
\* the response of the second.
C9_Witness ==
  \E r \in Reqs, q \in Reqs :
    /\ r # q /\ SameKey(r, q) /\ cfg[r].cache /\ cfg[q].cache
    /\ Len(completions) >= 2
    /\ completions[1].req = r /\ completions[2].req = q
    /\ responseCacheMap[Key(q)] = TransportResponse(q, calls[q])

\* C10: the caller's promise settles once; it is rejected only with the
\* Cancel message of a superseded attempt or with the error of an attempt
\* that failed with retryCount >= retry, and resolved only with the response
\* of a successful attempt or with the cache entry of its key.
C10_Settlement ==
  [][\A r \in Reqs :
       /\ Settled(r) => (st'[r] = st[r] /\ result'[r] = result[r])
       /\ ~Settled(r) => (result[r] = NoResult /\ (result'[r] # NoResult => Settled(r)'))
       /\ (~Settled(r) /\ st'[r] = "rejected") =>
            \/ st[r] = "cancelling" /\ result'[r] = CancelMessage
            \/ /\ st[r] = "inflight"
               /\ cfg[r].retryCount >= cfg[r].retry
               /\ result'[r] = TransportError(r, calls[r])
       /\ (~Settled(r) /\ st'[r] = "resolved") =>
            \/ st[r] = "inflight" /\ result'[r] = TransportResponse(r, calls[r])
            \/ /\ st[r] = "idle" /\ cfg'[r].cache
               /\ Key(r)' \in DOMAIN responseCacheMap
               /\ result'[r] = responseCacheMap[Key(r)']]_vars

\* A request absorbed a failed attempt (no rejection while budget was left)
\* and was rejected by the failure that used the budget up.
C10_Witness ==
  \E r \in Reqs :
    /\ st[r] = "rejected" /\ result[r] = TransportError(r, 2)
    /\ cfg[r].retry = 1 /\ cfg[r].retryCount = 1

\* ---------------------------------------------------------------- claim C11
\* The option objects that carry no cancelDuplicated field: the flag of
\* their config is the one of defaultConfig.
WithoutFlag(options) == "cancelDuplicated" \notin DOMAIN options

\* Request q holds the entry of its key and is on its way to or at the
\* transport.
Registered(q) ==
  /\ InFlight(q)
  /\ Key(q) \in DOMAIN requestMap
  /\ requestMap[Key(q)] = [req |-> q, tok |-> token[q]]

\* C11: a request issued without a cancelDuplicated option behaves as one
\* with cancelDuplicated = true: when request() sends it through the request
\* interceptor, the pending request registered under its key is cancelled.
C11_DefaultCancels ==
  [][\A r, q \in Reqs : \A options \in pool :
       ( /\ RequestStep(r)
         /\ st'[r] = "queued"
         /\ WithoutFlag(options)
         /\ cfg'[r] = requestConfig(variant, options)
         /\ q # r
         /\ Registered(q)
         /\ Key(q) = getDuplicatedKey(variant, cfg'[r]) )
       => /\ cfg'[r].cancelDuplicated
          /\ Superseded(q)']_vars

\* ---------------------------------------------------------------- claim C12
\* The request holds a cancel function nobody has called.
Uncancelled(r) == InFlight(r) /\ ~Superseded(r)

\* C12: every entry of the registry is the cancel function of the current
\* attempt of the request with cancelDuplicated=true whose request
\* interceptor ran last for that key; every uncancelled pending request with
\* cancelDuplicated=true holds the entry of its key (its registration was
\* not skipped); so no two uncancelled pending requests with
\* cancelDuplicated=true share a key.
C12_OneHandlePerKey ==
  /\ \A k \in DOMAIN requestMap :
       /\ k \in DOMAIN lastHook
       /\ requestMap[k] = [req |-> lastHook[k], tok |-> token[lastHook[k]]]
       /\ cfg[lastHook[k]].cancelDuplicated
       /\ Key(lastHook[k]) = k
  /\ \A r \in Reqs :
       (Uncancelled(r) /\ cfg[r].cancelDuplicated) => Registered(r)
  /\ \A r, q \in Reqs :
       ( /\ r # q
         /\ Uncancelled(r) /\ cfg[r].cancelDuplicated
         /\ Uncancelled(q) /\ cfg[q].cancelDuplicated )
       => Key(r) # Key(q)

\* A retry of the first request took the registry entry over from the
\* second request, which had taken it while the first waited on its timer.
C12_Witness ==
  \E r, q \in Reqs :
    /\ r < q
    /\ Issued(r) /\ Issued(q)
    /\ cfg[r].retryCount >= 1
    /\ Registered(r)
    /\ Key(q) = Key(r)
    /\ cfg[q].cancelDuplicated
    /\ Superseded(q)

\* ---------------------------------------------------------------- claim C13
\* No request is on its way and no retry timer runs.
Quiescent == \A r \in Reqs : st[r] \in {"idle", "resolved", "rejected"}

\* C13: a key has a registry entry only while a request with
\* cancelDuplicated=true and that key is pending at the transport (the
\* entry is that request's); when every issued request has settled and no
\* retry timer is outstanding the registry is empty.
C13_NoLeak ==
  /\ \A k \in DOMAIN requestMap :
       \E r \in Reqs :
         /\ InFlight(r)
         /\ cfg[r].cancelDuplicated
         /\ Key(r) = k
         /\ requestMap[k].req = r
  /\ Quiescent => requestMap = <<>>

\* Both requests had an entry (the first lost it to the second and was
\* cancelled, the second failed after a retry) and the registry is empty.
C13_Witness ==
  /\ Quiescent
  /\ requestMap = <<>>
  /\ \E r, q \in Reqs :
       /\ RejectedWithCancel(r)
       /\ token[q] >= 2
       /\ st[q] = "rejected" /\ result[q] = TransportError(q, calls[q])

\* ---------------------------------------------------------------- claim C14
\* The response interceptor of request r runs: on the transport's answer or
\* on the Cancel of the request.
CompletionStep(r) ==
  /\ st[r] \in {"inflight", "cancelling"}
  /\ st'[r] \in {"resolved", "rejected", "waiting"}

\* The cancel function of request q is called while q is pending.
CancelStep(q) == ~Superseded(q) /\ Superseded(q)'

\* C14: when a request completes (success, transport failure or its own
\* cancellation) the registry loses at most the completing request's own
\* entry and no other request changes its standing or has its token
\* cancelled; the cancel function of a pending request is called only in
\* the request interceptor of another request with the same key and
\* cancelDuplicated=true.
C14_OnlyUnregister ==
  [][/\ \A r \in Reqs :
          CompletionStep(r) =>
            /\ \/ requestMap' = requestMap
               \/ /\ Key(r) \in DOMAIN requestMap
                  /\ requestMap[Key(r)].req = r
                  /\ requestMap' = Remove(requestMap, Key(r))
            /\ \A q \in Reqs \ {r} : st'[q] = st[q] /\ reason'[q] = reason[q]
     /\ \A q \in Reqs :
          CancelStep(q) =>
            \E r \in Reqs \ {q} :
              /\ HookStep(r)
              /\ cfg'[r].cancelDuplicated
              /\ getDuplicatedKey(variant, cfg'[r]) = Key(q)]_vars

\* A request without the flag was answered by the transport while a request
\* with the same key, registered before that answer, stays registered.
C14_Witness ==
  \E r, q \in Reqs :
    /\ r # q
    /\ Issued(r) /\ Issued(q)
    /\ SettledByTransport(r)
    /\ ~cfg[r].cancelDuplicated
    /\ Key(q) = Key(r)
    /\ early[q]
    /\ Registered(q)

\* ---------------------------------------------------------------- claim C15
\* Requests are numbered in the order of their request() calls.
\* C15: whenever the cancel function of a pending request is called, it is
\* called by the request interceptor of a request with the same key that
\* was issued through request() later; in particular a request issued
\* later is never cancelled by one issued earlier, retries included.
C15_CancelledByNewer ==
  [][\A q \in Reqs :
       CancelStep(q) =>
         \E r \in Reqs :
           /\ r > q
           /\ HookStep(r)
           /\ getDuplicatedKey(variant, cfg'[r]) = Key(q)]_vars

\* ---------------------------------------------------------------- claim C16
\* request() answers request r from the cache.
CacheHitStep(r) == st[r] = "idle" /\ st'[r] = "resolved"

ReissueStep(r) == st[r] = "waiting" /\ st'[r] = "queued"

\* The transport answers a re-issuance of request r.
RetryAnswerStep(r) ==
  /\ st[r] = "inflight"
  /\ cfg[r].retryCount >= 1
  /\ st'[r] \in {"resolved", "rejected", "waiting"}

\* C17: a re-issuance by retry() runs the request interceptor as a first
\* attempt does (with cancelDuplicated=true it cancels the pending request
\* registered under its key and registers a fresh token of its own, with
\* cancelDuplicated=false it leaves registry and tokens alone); the answer
\* to a re-issuance runs the response interceptor as for a first attempt
\* (the request's entry is unregistered; a success resolves the caller with
\* the response and, with cache=true, stores it; a failure retries again
\* while retryCount < retry and rejects with the transport's error
\* otherwise).
C17_RetryThroughHooks ==
  [][\A r \in Reqs :
       /\ ReissueStep(r) =>
            IF cfg[r].cancelDuplicated
            THEN /\ token'[r] = token[r] + 1
                 /\ ~reason'[r]
                 /\ Key(r) \in DOMAIN requestMap'
                 /\ requestMap'[Key(r)] = [req |-> r, tok |-> token'[r]]
                 /\ \A q \in Reqs \ {r} :
                      (Registered(q) /\ Key(q) = Key(r)) => Superseded(q)'
            ELSE /\ requestMap' = requestMap
                 /\ token' = token
                 /\ reason' = reason
       /\ RetryAnswerStep(r) =>
            /\ cfg[r].cancelDuplicated => Key(r) \notin DOMAIN requestMap'
            /\ st'[r] = "resolved" =>
                 /\ result'[r] = TransportResponse(r, calls[r])
                 /\ IF cfg[r].cache
                    THEN /\ Key(r) \in DOMAIN responseCacheMap'
                         /\ responseCacheMap'[Key(r)] = result'[r]
                    ELSE responseCacheMap' = responseCacheMap
            /\ st'[r] = "waiting" =>
                 /\ cfg[r].retryCount < cfg[r].retry
                 /\ cfg'[r].retryCount = cfg[r].retryCount + 1
            /\ st'[r] = "rejected" =>
                 /\ cfg[r].retryCount >= cfg[r].retry
                 /\ result'[r] = TransportError(r, calls[r])]_vars

\* A request with cache=true and cancelDuplicated=true resolved on a
\* re-issuance that cancelled a later request with its key: its response
\* is in the cache and its entry has left the registry.
C17_Witness ==
  \E r, q \in Reqs :
    /\ r # q
    /\ Issued(r) /\ Issued(q)
    /\ st[r] = "resolved"
    /\ cfg[r].retryCount >= 1
    /\ cfg[r].cache /\ cfg[r].cancelDuplicated
    /\ token[r] >= 2
    /\ Key(r) \in DOMAIN responseCacheMap
    /\ responseCacheMap[Key(r)] = result[r]
    /\ Key(r) \notin DOMAIN requestMap
    /\ Key(q) = Key(r)
    /\ RejectedWithCancel(q)
    /\ ~early[q]

\* ---------------------------------------------------------------- claim C18
\* The transport answers request r with an error and retry() schedules a
\* re-issuance.
RetryScheduledStep(r) == st[r] = "inflight" /\ st'[r] = "waiting"

\* C18: the retry counter of a request is 0 when request() is called, stays
\* within 0..retry, and the transport is invoked at most retryCount + 1 <=
\* retry + 1 times for the request; the counter changes only by +1, only
\* when retry() schedules a re-issuance of that very request, and no step
\* changes the counter of two requests.
C18_RetryCounter ==
  /\ [](\A r \in Reqs :
          Issued(r) =>
            /\ 0 <= cfg[r].retryCount
            /\ cfg[r].retryCount <= cfg[r].retry
            /\ calls[r] <= cfg[r].retryCount + 1
            /\ calls[r] <= cfg[r].retry + 1)
  /\ [][\A r \in Reqs :
          /\ RequestStep(r) => cfg'[r].retryCount = 0
          /\ Issued(r) =>
               /\ \/ cfg'[r].retryCount = cfg[r].retryCount
                  \/ /\ cfg'[r].retryCount = cfg[r].retryCount + 1
                     /\ RetryScheduledStep(r)
                     /\ \A q \in Reqs \ {r} : cfg'[q] = cfg[q]
               /\ RetryScheduledStep(r) =>
                    cfg'[r].retryCount = cfg[r].retryCount + 1
               /\ ReissueStep(r) => calls[r] = cfg[r].retryCount]_vars

\* Two requests ran interleaved, each on its own counter: one used its
\* whole budget of MaxRetry re-issuances (MaxRetry + 1 transport calls), the
\* other stands at its first re-issuance.
C18_Witness ==
  \E r, q \in Reqs :
    /\ r # q
    /\ Issued(r) /\ Issued(q)
    /\ cfg[r].retry = MaxRetry
    /\ cfg[r].retryCount = MaxRetry
    /\ calls[r] = MaxRetry + 1
    /\ st[r] = "rejected"
    /\ cfg[q].retry = 1
    /\ cfg[q].retryCount = 1
    /\ st[q] = "waiting"

\* ---------------------------------------------------------------- claim C19
\* The transport is invoked for request r.
TransportStep(r) == calls'[r] = calls[r] + 1

\* The cache holds an entry for the key of request r.
Cached(r) == Key(r) \in DOMAIN responseCacheMap

\* C19 as stated: once the cache holds an entry for a key, no transport
\* invocation starts for a request with cache=true and that key, first
\* attempt or re-issuance.
C19_NoTransportOnceCached ==
  [][\A r \in Reqs :
       (TransportStep(r) /\ cfg[r].cache) => ~Cached(r)]_vars

\* C19: once the cache holds an entry for a key, request() answers every
\* request with cache=true and that key from the cache, so no first attempt
\* reaches the transport; a transport invocation for such a request is a
\* re-issuance by retry() of a request whose first attempt went to the
\* transport before.
C19_NoFirstAttemptOnceCached ==
  [][\A r \in Reqs :
       /\ ( /\ RequestStep(r)
            /\ cfg'[r].cache
            /\ getDuplicatedKey(variant, cfg'[r]) \in DOMAIN responseCacheMap )
          => CacheHitStep(r) /\ calls'[r] = 0
       /\ (TransportStep(r) /\ cfg[r].cache /\ Cached(r))
          => /\ cfg[r].retryCount >= 1
             /\ calls[r] = cfg[r].retryCount]_vars

\* A request with cache=true is at the transport on a re-issuance although
\* the cache holds the response of another request with its key: both
\* cancel duplicates and neither cancelled the other, so the other was
\* answered and stored before the re-issuance passed the request
\* interceptor.
C19_Witness ==
  \E r, q \in Reqs :
    /\ r # q
    /\ Issued(r) /\ Issued(q)
    /\ Key(q) = Key(r)
    /\ cfg[r].cache /\ cfg[r].cancelDuplicated
    /\ cfg[q].cache /\ cfg[q].cancelDuplicated
    /\ st[q] = "resolved" /\ result[q] = TransportResponse(q, calls[q])
    /\ Cached(r) /\ responseCacheMap[Key(r)] = result[q]
    /\ st[r] = "inflight"
    /\ cfg[r].retryCount >= 1
    /\ calls[r] = cfg[r].retryCount + 1

\* ---------------------------------------------------------------- claim C20
\* C20: when the transport answers every invocation that is not cancelled
\* and every retry timer fires, every request issued through request()
\* eventually settles (resolved or rejected), whatever the other requests
\* do and whatever the retry budgets: from some point on every issued
\* request is settled (a settled request stays settled and an issued one
\* stays issued, so this is Issued(r) ~> Settled(r) for every r).
C20_EverySettles == <>[](\A r \in Reqs : Issued(r) => Settled(r))

\* Every request has settled after the requests superseded one another with
\* retries under way: a re-issuance of the first cancelled the second, which
\* had registered while the first waited on its timer.
C20_Witness ==
  /\ \A r \in Reqs : Settled(r)
  /\ \E r, q \in Reqs :
       /\ r < q
       /\ cfg[r].retryCount >= 1
       /\ token[r] >= 2
       /\ cfg[q].retry > 0
       /\ RejectedWithCancel(q)
       /\ ~early[q]

====
